---- MODULE Spec2Model ----
(***************************************************************************)
(* Model of the ONNX frontend operator translators                         *)
(*   op/scatter_nd.cpp, op/random_normal_like.cpp, op/stft.cpp,            *)
(*   op/scan.cpp, op/mul.hpp, op/sqrt.hpp.                                 *)
(* A translator takes one ONNX node (its resolved inputs, its attributes   *)
(* and, for Scan, its body subgraph) and returns the outputs it built, or  *)
(* throws.  The state is the node under translation, the body subgraph it  *)
(* owns (which outlives a call), and the result of the last call.          *)
(***************************************************************************)
EXTENDS Integers, Sequences, FiniteSets, TLC

VARIABLES node, body, out, calls

vars == <<node, body, out, calls>>

\* How many times the node is handed to a translator in one behaviour.
MaxCalls == 2

----------------------------------------------------------------------------
(* Tensors: ov::Output<ov::Node> as the translators see it.                *)

\* ov::PartialShape: a rank that is static or not, and the dimensions
\* (-1 is a dynamic dimension).
DynRank == [rank_static |-> FALSE, dims |-> <<>>]

StaticShape(d) == [rank_static |-> TRUE, dims |-> d]

\* A non-constant input: `id` is the identity of the producing node.
Tensor(id, et, shape) ==
    [kind |-> "tensor", id |-> id, et |-> et, shape |-> shape, values |-> <<>>]

\* The NullNode that stands for an omitted optional input.
NullNode == [kind |-> "null", id |-> "null", et |-> "dynamic", shape |-> DynRank, values |-> <<>>]

is_null(t) == t.kind = "null"

is_constant(t) == t.kind = "const"

\* Node::has_attribute / Node::get_attribute_value with and without default.
has_attribute(n, a) == a \in DOMAIN n.attrs

get_attribute_value(n, a, default) == IF has_attribute(n, a) THEN n.attrs[a] ELSE default

\* The empty attribute set.
NoAttrs == [a \in {} |-> 0]

\* The optional attribute a with a value from vals, or absent.
OptAttr(a, vals) == {NoAttrs} \cup { [x \in {a} |-> v] : v \in vals }

\* A translator's result: the outputs it returned, or the exception thrown.
Returned(fn, outputs) == [fn |-> fn, status |-> "ok", error |-> "", outputs |-> outputs]

Thrown(fn, error) == [fn |-> fn, status |-> "error", error |-> error, outputs |-> <<>>]

NotCalled == [fn |-> "", status |-> "none", error |-> "", outputs |-> <<>>]

\* The body subgraph of a node that has none.
NoBody == [params |-> <<>>, results |-> <<>>, src |-> <<>>, squeezes |-> <<>>]

----------------------------------------------------------------------------
(* scatter_nd                                                              *)

scatter_nd_ignores_reduction(n) ==
    IF Len(n.inputs) < 3
    THEN Thrown("scatter_nd", "out_of_range")
    ELSE Returned("scatter_nd",
                  <<[op |-> "ScatterNDUpdate",
                     args |-> <<n.inputs[1], n.inputs[2], n.inputs[3]>>]>>)

scatter_nd(n) ==
    IF Len(n.inputs) < 3
    THEN Thrown("scatter_nd", "out_of_range")
    ELSE LET data == n.inputs[1]
             indices == n.inputs[2]
             updates == n.inputs[3]
         IN  IF has_attribute(n, "reduction")
                /\ get_attribute_value(n, "reduction", "none") # "none"
             THEN Thrown("scatter_nd", "validation")
             ELSE Returned("scatter_nd",
                           <<[op |-> "ScatterNDUpdate", args |-> <<data, indices, updates>>]>>)

\* The ScatterND nodes handed to the translator.
ScatterTensors ==
    { Tensor(id, "f32", StaticShape(<<2, 3>>)) : id \in {"a", "b", "c"} }

Reductions == {"none", "add", "mul", ""}

IsScatterNode(nd) ==
    \E d \in ScatterTensors, i \in ScatterTensors, u \in ScatterTensors, len \in 2..3,
       a \in OptAttr("reduction", Reductions) :
        /\ len < 3 => u = d
        /\ nd = [op |-> "ScatterND", inputs |-> SubSeq(<<d, i, u>>, 1, len), attrs |-> a]

----------------------------------------------------------------------------
(* random_normal_like                                                      *)

\* Float attribute values are held in tenths: 15 is 1.5f.
FloatTenths(whole, tenths) == whole * 10 + tenths

IntegerTypes == {"i32", "i64"}

\* common::get_ov_element_type: the ONNX TensorProto data type as an
\* element type; "unsupported" stands for the exception it throws.
get_ov_element_type(dtype) ==
    CASE dtype = 1 -> "f32"
      [] dtype = 6 -> "i32"
      [] dtype = 7 -> "i64"
      [] dtype = 10 -> "f16"
      [] dtype = 11 -> "f64"
      [] OTHER -> "unsupported"

\* The value a constant of element type et holds for the float v: an
\* integer type keeps the integral part.
cast_to(et, v) ==
    IF et \in IntegerTypes
    THEN (IF v >= 0 THEN (v \div 10) * 10 ELSE 0 - (((0 - v) \div 10) * 10))
    ELSE v

\* v0::Constant::create(type, Shape{1}, {v}) for a float v.
ConstantCreate(et, v) ==
    [op |-> "Constant", et |-> et, shape |-> StaticShape(<<1>>), value |-> cast_to(et, v)]

\* v0::ShapeOf(input)
ShapeOf(t) == [op |-> "ShapeOf", args |-> <<t>>]

\* ov::frontend::make_random_normal(...).first
make_random_normal(shape, target_type, mean_node, scale_node, seed) ==
    <<[op |-> "RandomNormal", et |-> target_type, shape |-> shape,
       mean |-> mean_node, scale |-> scale_node, seed |-> seed]>>

random_normal_like_input_type(n) ==
    IF Len(n.inputs) < 1
    THEN Thrown("random_normal_like", "out_of_range")
    ELSE LET input == n.inputs[1]
             target_type == input.et
             shape == ShapeOf(input)
             seed == get_attribute_value(n, "seed", FloatTenths(0, 0))
             mean == get_attribute_value(n, "mean", FloatTenths(0, 0))
             scale == get_attribute_value(n, "scale", FloatTenths(1, 0))
         IN  Returned("random_normal_like",
                      make_random_normal(shape, target_type,
                                         ConstantCreate(target_type, mean),
                                         ConstantCreate(target_type, scale), seed))

random_normal_like(n) ==
    IF Len(n.inputs) < 1
    THEN Thrown("random_normal_like", "out_of_range")
    ELSE LET input == n.inputs[1]
             target_type == IF has_attribute(n, "dtype")
                            THEN get_ov_element_type(n.attrs["dtype"])
                            ELSE input.et
             shape == ShapeOf(input)
             seed == get_attribute_value(n, "seed", FloatTenths(0, 0))
             mean == get_attribute_value(n, "mean", FloatTenths(0, 0))
             scale == get_attribute_value(n, "scale", FloatTenths(1, 0))
             scale_node == ConstantCreate(target_type, scale)
             mean_node == ConstantCreate(target_type, mean)
         IN  IF target_type = "unsupported"
             THEN Thrown("random_normal_like", "unsupported_type")
             ELSE Returned("random_normal_like",
                           make_random_normal(shape, target_type, mean_node, scale_node, seed))

RandomInputs ==
    { Tensor("x", et, sh) : et \in {"f32", "i64"}, sh \in {DynRank, StaticShape(<<2, 3>>)} }

IsRandomNode(nd) ==
    \E i \in {<<>>} \cup { <<t>> : t \in RandomInputs },
       d \in OptAttr("dtype", {1, 7, 11, 14}),
       m \in OptAttr("mean", {FloatTenths(0, 0), FloatTenths(1, 5), 0 - FloatTenths(1, 5)}),
       s \in OptAttr("scale", {FloatTenths(1, 0), FloatTenths(2, 5)}),
       sd \in OptAttr("seed", {FloatTenths(0, 0), FloatTenths(42, 0)}) :
        nd = [op |-> "RandomNormalLike", inputs |-> i, attrs |-> d @@ m @@ s @@ sd]

----------------------------------------------------------------------------
(* stft                                                                    *)

RECURSIVE shape_size(_)
\* ov::shape_size: the number of elements of a static shape.
shape_size(dims) == IF dims = <<>> THEN 1 ELSE Head(dims) * shape_size(Tail(dims))

\* A v0::Constant input with its shape and its elements.
Constant(id, dims, values) ==
    [kind |-> "const", id |-> id, et |-> "i64", shape |-> StaticShape(dims), values |-> values]

\* PartialShape::is_static
is_static_shape(sh) == sh.rank_static /\ \A i \in 1..Len(sh.dims) : sh.dims[i] >= 0

\* C++ integer division, which truncates toward zero (b # 0).
TruncDiv(a, b) ==
    LET abs(x) == IF x < 0 THEN 0 - x ELSE x
        q == abs(a) \div abs(b)
    IN  IF (a < 0) = (b < 0) THEN q ELSE 0 - q

\* The lambda is_complex of stft, on a partial shape.
is_complex(sh) ==
    /\ sh.rank_static
    /\ Len(sh.dims) >= 1
    /\ sh.dims[Len(sh.dims)] = 2

Min(a, b) == IF a < b THEN a ELSE b

Max(a, b) == IF a < b THEN b ELSE a

\* The check of stft on its frame_step and frame_length inputs.
is_scalar_constant(t) == is_constant(t) /\ shape_size(t.shape.dims) <= 1

\* cast_vector<int64_t>()[0]: element 0 of an empty vector is whatever the
\* read past the end yields (ub.value) when the process survives it.
first_element(t, ub) == IF Len(t.values) >= 1 THEN t.values[1] ELSE ub.value

\* One slice of the signal and the DFT built on it (the body of the inner loop).
stft_frame(n, signal, batch, sig_idx, frame_step, frame_length, onesided, window_node_provided, dft_length_provided) ==
    LET dims == signal.shape.dims
        start == <<batch, sig_idx * frame_step>>
        stop == <<batch + 1, sig_idx * frame_step + frame_length>>
        slice == [op |-> "Slice", args |-> <<signal>>, start |-> start, stop |-> stop,
                  step |-> <<1, 1>>, axes |-> <<0, 1>>]
        \* the dimensions of the slice: axes 0 and 1 cut, the last one kept
        slice_len == Max(0, Min(stop[2], dims[2]) - Min(start[2], dims[2]))
        slice_dims == <<Max(0, Min(stop[1], dims[1]) - start[1]), slice_len, dims[3]>>
        pattern == IF is_complex(StaticShape(slice_dims)) THEN <<-1, 2>>
                   ELSE IF onesided # 0 THEN <<-1>> ELSE <<-1, 1>>
        total == shape_size(slice_dims)
        flat_dims == IF Len(pattern) = 1 THEN <<total>>
                     ELSE <<TruncDiv(total, pattern[2]), pattern[2]>>
        flatten_slice == [op |-> "Reshape", args |-> <<slice>>, pattern |-> pattern]
        window == IF is_complex(StaticShape(flat_dims))
                  THEN [op |-> "Broadcast",
                        args |-> <<[op |-> "Unsqueeze", args |-> <<n.inputs[3]>>, axis |-> 1],
                                   [op |-> "ShapeOf", args |-> <<flatten_slice>>]>>]
                  ELSE [op |-> "Input", args |-> <<n.inputs[3]>>]
        dft_in == IF window_node_provided
                  THEN [op |-> "Multiply", args |-> <<flatten_slice, window>>]
                  ELSE flatten_slice
        dft == [op |-> "DFT", args |-> <<dft_in>>,
                dft_length |-> IF dft_length_provided THEN n.inputs[4] ELSE NullNode,
                axis |-> 0, inverse |-> FALSE, onesided |-> (onesided = 1)]
    IN  [op |-> "Unsqueeze", args |-> <<dft>>, axis |-> 0]

\* The output graph of stft (lines 80-123), once every check has passed.
stft_build(n, signal, frame_step, frame_length, onesided, window_node_provided, dft_length_provided, ub) ==
    LET dims == signal.shape.dims
        axis == 1
        batch_size == dims[1]
        nstfts == (IF frame_step = 0 THEN ub.value
                   ELSE TruncDiv(dims[axis + 1] - frame_length, frame_step)) + 1
        signals_in_batch(batch) ==
            [k \in 1..Max(0, nstfts) |->
                stft_frame(n, signal, batch, k - 1, frame_step, frame_length, onesided,
                           window_node_provided, dft_length_provided)]
        all_signals ==
            [b \in 1..batch_size |->
                [op |-> "Unsqueeze",
                 args |-> <<[op |-> "Concat", args |-> signals_in_batch(b - 1), axis |-> 0]>>,
                 axis |-> 0]]
    IN  IF frame_step = 0 /\ ub.division_traps
        THEN Thrown("stft", "ub_division_by_zero")
        ELSE IF batch_size < 1 \/ nstfts < 1
        THEN Thrown("stft", "concat_without_inputs")
        ELSE Returned("stft", <<[op |-> "Concat", args |-> all_signals, axis |-> 0]>>)

\* The checks of stft after frame_step has been read (lines 44-79).
stft_checked(n, signal, frame_step, dft_length_provided, onesided, ub) ==
    LET signal_param_shape == signal.shape
        axis == 1
        window_node_provided == Len(n.inputs) > 2 /\ ~is_null(n.inputs[3])
        default_length == IF frame_step = 0 THEN ub.value
                          ELSE TruncDiv(signal_param_shape.dims[axis + 1], frame_step)
        frame_length == IF dft_length_provided
                        THEN first_element(n.inputs[4], ub)
                        ELSE default_length
        window_shape == n.inputs[3].shape
    IN  IF ~(is_static_shape(signal_param_shape) /\ Len(signal_param_shape.dims) = 3)
        THEN Thrown("stft", "signal_shape")
        ELSE IF frame_step = 0 /\ ub.division_traps
        THEN Thrown("stft", "ub_division_by_zero")
        ELSE IF dft_length_provided /\ ~is_scalar_constant(n.inputs[4])
        THEN Thrown("stft", "frame_length")
        ELSE IF dft_length_provided /\ Len(n.inputs[4].values) < 1 /\ ub.crash
        THEN Thrown("stft", "ub_read_past_end")
        ELSE IF window_node_provided /\ window_shape.rank_static /\ Len(window_shape.dims) # 1
        THEN Thrown("stft", "window_rank")
        ELSE IF window_node_provided /\ window_shape.rank_static
                /\ window_shape.dims[1] >= 0 /\ window_shape.dims[1] # frame_length
        THEN Thrown("stft", "window_length")
        ELSE IF onesided = 1 /\ is_complex(signal_param_shape)
        THEN Thrown("stft", "onesided_complex")
        ELSE stft_build(n, signal, frame_step, frame_length, onesided,
                        window_node_provided, dft_length_provided, ub)

\* stft of node n; ub is what the undefined behaviour of this call turns
\* out to be: the read past the end of an empty vector crashes or yields
\* ub.value, a division by zero traps or yields ub.value.
stft(n, ub) ==
    IF Len(n.inputs) < 2
    THEN Thrown("stft", "out_of_range")
    ELSE LET signal == n.inputs[1]
             dft_length_provided == Len(n.inputs) > 3 /\ ~is_null(n.inputs[4])
             onesided == get_attribute_value(n, "onesided", 1)
             frame_step_node == n.inputs[2]
         IN  IF ~is_scalar_constant(frame_step_node)
             THEN Thrown("stft", "frame_step")
             ELSE IF Len(frame_step_node.values) < 1 /\ ub.crash
             THEN Thrown("stft", "ub_read_past_end")
             ELSE stft_checked(n, signal, first_element(frame_step_node, ub),
                               dft_length_provided, onesided, ub)

\* What undefined behaviour may turn out to be.
UBOutcomes == [crash : BOOLEAN, value : {0, 1, 2}, division_traps : BOOLEAN]

\* The length of the signals handed to stft.
SignalLength == 4

Signals ==
    { Tensor("signal", "f32", sh) :
        sh \in {DynRank, StaticShape(<<1, SignalLength>>), StaticShape(<<-1, SignalLength, 1>>)}
               \cup { StaticShape(<<b, SignalLength, c>>) : b \in {1, 2}, c \in {1, 2} } }

\* Scalar-like inputs: not a constant, or a constant of one of these shapes.
ScalarInputs(id, vals) ==
    {Tensor(id, "i64", StaticShape(<<>>)), Constant(id, <<0>>, <<>>), Constant(id, <<2>>, <<1, 2>>)}
    \cup { Constant(id, d, <<v>>) : d \in {<<>>, <<1>>, <<1, 1>>}, v \in vals }

Windows ==
    { Tensor("window", "f32", sh) :
        sh \in {DynRank, StaticShape(<<-1>>), StaticShape(<<2>>), StaticShape(<<SignalLength>>),
                StaticShape(<<2, 2>>)} }

\* nd is an STFT node the importer may hand over: one to four inputs.
IsStftNode(nd) ==
    \E s \in Signals, f \in ScalarInputs("frame_step", {1, 2}), w \in {NullNode} \cup Windows,
       l \in {NullNode} \cup ScalarInputs("frame_length", {2, SignalLength, 2 * SignalLength}),
       len \in 1..4, a \in OptAttr("onesided", {0, 1, 2}) :
        /\ len < 4 => l = NullNode
        /\ len < 3 => w = NullNode
        /\ len < 2 => f = Tensor("frame_step", "i64", StaticShape(<<>>))
        /\ nd = [op |-> "STFT", inputs |-> SubSeq(<<s, f, w, l>>, 1, len), attrs |-> a]

----------------------------------------------------------------------------
(* scan                                                                    *)

\* A source inside the body subgraph: output 0 of body parameter idx, or of
\* the idx-th Squeeze a translation inserted.
Param(idx) == [kind |-> "param", idx |-> idx]

SqueezeOut(idx) == [kind |-> "squeeze", idx |-> idx]

\* ov::util::normalize_axis(description, axis, rank): a negative axis needs
\* a static rank; with a static rank r the axis lies in [-r, r - 1] and a
\* negative one counts from the end; ok = FALSE stands for the exception.
normalize_axis(axis, shape) ==
    LET r == Len(shape.dims)
    IN  IF ~shape.rank_static
        THEN [ok |-> axis >= 0, axis |-> axis]
        ELSE IF axis < 0 - r \/ axis > Max(r - 1, 0)
        THEN [ok |-> FALSE, axis |-> axis]
        ELSE [ok |-> TRUE, axis |-> IF axis < 0 THEN axis + r ELSE axis]

\* Output::get_target_inputs of body parameter idx: the consumer inputs and
\* the Squeeze nodes that read it.
get_target_inputs(b, idx) ==
    [consumers |-> { c \in 1..Len(b.src) : b.src[c] = Param(idx) },
     squeezes |-> { k \in 1..Len(b.squeezes) : b.squeezes[k].input = Param(idx) }]

\* Lines 60-67 without the replace_source_output loop.
squeeze_scan_parameter_unrouted(b, in_idx, shape, axis) ==
    [b EXCEPT !.params[in_idx].shape = shape,
              !.squeezes = Append(b.squeezes, [input |-> Param(in_idx), axis |-> axis])]

\* Lines 60-67: the parameter takes the aligned shape, a Squeeze of it is
\* made, and every input that consumed the parameter before the Squeeze
\* existed is rerouted to the Squeeze.
squeeze_scan_parameter(b, in_idx, shape, axis) ==
    LET input_consumers == get_target_inputs(b, in_idx)
        k == Len(b.squeezes) + 1
    IN  [b EXCEPT !.params[in_idx].shape = shape,
                  !.src = [c \in 1..Len(b.src) |->
                              IF c \in input_consumers.consumers THEN SqueezeOut(k) ELSE b.src[c]],
                  !.squeezes = Append([j \in 1..Len(b.squeezes) |->
                                          IF j \in input_consumers.squeezes
                                          THEN [b.squeezes[j] EXCEPT !.input = SqueezeOut(k)]
                                          ELSE b.squeezes[j]],
                                      [input |-> Param(in_idx), axis |-> axis])]

\* Lines 40-44: the state parameters take element type and shape of the
\* node inputs that initialise them.
align_body_inputs(b, node_inputs, num_initial_values, in_offset) ==
    [b EXCEPT !.params = [i \in 1..Len(b.params) |->
                             IF i <= num_initial_values
                             THEN [et |-> node_inputs[i + in_offset].et,
                                   shape |-> node_inputs[i + in_offset].shape]
                             ELSE b.params[i]]]

RECURSIVE align_scan_inputs(_, _, _, _, _, _, _)
\* Lines 49-68, from scan input i on: the body as it is when the loop ends
\* or throws (ok = FALSE: normalize_axis threw at scan input i).
align_scan_inputs(b, i, node_inputs, num_scan_inputs, num_initial_values, scan_input_axes, in_offset) ==
    IF i > num_scan_inputs
    THEN [body |-> b, ok |-> TRUE]
    ELSE LET in_idx == num_initial_values + i
             axis == scan_input_axes[i]
             shape == node_inputs[in_idx + in_offset].shape
             na == normalize_axis(axis, shape)
             aligned == IF shape.rank_static
                        THEN [shape EXCEPT !.dims[na.axis + 1] = 1]
                        ELSE shape
         IN  IF shape.rank_static /\ ~na.ok
             THEN [body |-> b, ok |-> FALSE]
             ELSE align_scan_inputs(squeeze_scan_parameter(b, in_idx, aligned, axis), i + 1,
                                    node_inputs, num_scan_inputs, num_initial_values,
                                    scan_input_axes, in_offset)

\* The partial shape of v0::Unsqueeze(value, axis): one more dimension.
unsqueezed_shape(shape, axis) ==
    LET r == Len(shape.dims)
        na == normalize_axis(axis, StaticShape([i \in 1..(r + 1) |-> 1]))
        at == IF na.ok THEN na.axis + 1 ELSE r + 1
    IN  IF ~shape.rank_static
        THEN DynRank
        ELSE StaticShape([i \in 1..(r + 1) |->
                             IF i < at THEN shape.dims[i]
                             ELSE IF i = at THEN 1 ELSE shape.dims[i - 1]])

\* Lines 70-75: body output out_idx behind an Unsqueeze on the scan axis.
Unsqueeze(value, axis) ==
    [op |-> "Unsqueeze", value |-> value, axis |-> axis,
     shape |-> unsqueezed_shape(value.shape, axis)]

\* The slicing a direction flag selects, flag = 1 taken for "reverse".
slicing_reverse_is_one(flag, axis) ==
    IF flag = 1
    THEN [start |-> -1, stride |-> -1, part_size |-> 1, end |-> 0, axis |-> axis]
    ELSE [start |-> 0, stride |-> 1, part_size |-> 1, end |-> -1, axis |-> axis]

\* Lines 88-92 and 107-111: the slicing a direction flag selects.
slicing(flag, axis) ==
    IF flag # 0
    THEN [start |-> -1, stride |-> -1, part_size |-> 1, end |-> 0, axis |-> axis]
    ELSE [start |-> 0, stride |-> 1, part_size |-> 1, end |-> -1, axis |-> axis]

\* Lines 83-93: set_sliced_input for every scan input.
sliced_inputs(node_inputs, num_scan_inputs, num_initial_values, scan_input_axes, scan_input_directions, in_offset) ==
    [i \in 1..num_scan_inputs |->
        LET in_idx == num_initial_values + i
            value == node_inputs[in_idx + in_offset]
            na == normalize_axis(scan_input_axes[i], value.shape)
        IN  [body_parameter |-> in_idx, value |-> value, ok |-> na.ok,
             slice |-> slicing(scan_input_directions[i], na.axis)]]

\* Lines 97-112 with the scan outputs pushed before the state outputs.
scan_outputs_scan_first(ti, b, node_inputs, num_initial_values, num_scan_outputs, scan_output_axes, scan_output_directions, in_offset) ==
    [j \in 1..(num_initial_values + num_scan_outputs) |->
        IF j > num_scan_outputs
        THEN [kind |-> "iter_value", ti |-> ti, body_value |-> b.results[j - num_scan_outputs],
              iteration |-> -1, ok |-> TRUE,
              merged |-> [body_parameter |-> j - num_scan_outputs,
                          initial_value |-> node_inputs[j - num_scan_outputs + in_offset],
                          successive_value |-> b.results[j - num_scan_outputs]]]
        ELSE LET value == Unsqueeze(b.results[num_initial_values + j], scan_output_axes[j])
                 na == normalize_axis(scan_output_axes[j], value.shape)
             IN  [kind |-> "concatenated_slices", ti |-> ti, body_value |-> value, ok |-> na.ok,
                  slice |-> slicing(scan_output_directions[j], na.axis)]]

\* Lines 96-112: the state outputs (a back edge each, the value of the last
\* iteration), then the scan outputs (the concatenated slices).
scan_outputs(ti, b, node_inputs, num_initial_values, num_scan_outputs, scan_output_axes, scan_output_directions, in_offset) ==
    [j \in 1..(num_initial_values + num_scan_outputs) |->
        IF j <= num_initial_values
        THEN [kind |-> "iter_value", ti |-> ti, body_value |-> b.results[j],
              iteration |-> -1, ok |-> TRUE,
              merged |-> [body_parameter |-> j,
                          initial_value |-> node_inputs[j + in_offset],
                          successive_value |-> b.results[j]]]
        ELSE LET i == j - num_initial_values
                 value == Unsqueeze(b.results[j], scan_output_axes[i])
                 na == normalize_axis(scan_output_axes[i], value.shape)
             IN  [kind |-> "concatenated_slices", ti |-> ti, body_value |-> value, ok |-> na.ok,
                  slice |-> slicing(scan_output_directions[i], na.axis)]]

\* scan_to_tensor_iterator: the body as the call leaves it, and the result.
scan_to_tensor_iterator(fn, node_inputs, b, num_scan_inputs, scan_input_axes, scan_input_directions, scan_output_axes, scan_output_directions, in_offset) ==
    LET num_initial_values == Len(b.params) - num_scan_inputs
        num_scan_outputs == Len(b.results) - num_initial_values
        aligned == align_scan_inputs(align_body_inputs(b, node_inputs, num_initial_values, in_offset),
                                     1, node_inputs, num_scan_inputs, num_initial_values,
                                     scan_input_axes, in_offset)
        \* the TensorIterator: its body (lines 78-80) and its sliced inputs
        ti == [function |-> aligned.body,
               sliced_inputs |-> sliced_inputs(node_inputs, num_scan_inputs, num_initial_values,
                                               scan_input_axes, scan_input_directions, in_offset)]
        outputs == scan_outputs(ti, b, node_inputs, num_initial_values, num_scan_outputs,
                                scan_output_axes, scan_output_directions, in_offset)
    IN  IF ~aligned.ok
           \/ \E i \in 1..Len(ti.sliced_inputs) : ~ti.sliced_inputs[i].ok
           \/ \E j \in 1..Len(outputs) : ~outputs[j].ok
        THEN [body |-> aligned.body, result |-> Thrown(fn, "axis_out_of_range")]
        ELSE [body |-> aligned.body, result |-> Returned(fn, outputs)]

\* A vector of n copies of v.
Filled(n, v) == [i \in 1..n |-> v]

\* import_onnx_scan(node, default_axis, in_offset, in_directions_attr_name)
import_onnx_scan(fn, n, b, default_axis, in_offset, in_directions_attr_name) ==
    LET node_inputs == n.inputs
        num_scan_inputs == n.attrs["num_scan_inputs"]
        num_initial_values == Len(b.params) - num_scan_inputs
        num_scan_outputs == Len(b.results) - num_initial_values
        scan_input_axes ==
            get_attribute_value(n, "scan_input_axes", Filled(num_scan_inputs, default_axis))
        scan_input_directions ==
            get_attribute_value(n, in_directions_attr_name, Filled(num_scan_inputs, 0))
        scan_output_axes ==
            get_attribute_value(n, "scan_output_axes", Filled(num_scan_outputs, default_axis))
        scan_output_directions ==
            get_attribute_value(n, "scan_output_directions", Filled(num_scan_outputs, 0))
    IN  IF ~has_attribute(n, "num_scan_inputs")
        THEN [body |-> b, result |-> Thrown(fn, "missing_attribute")]
        ELSE scan_to_tensor_iterator(fn, node_inputs, b, num_scan_inputs, scan_input_axes,
                                     scan_input_directions, scan_output_axes,
                                     scan_output_directions, in_offset)

\* set_1::scan without the check of sequence_lens.
set_1_scan_unchecked(n, b) == import_onnx_scan("set_1::scan", n, b, 1, 1, "directions")

\* set_1::scan
set_1_scan(n, b) ==
    IF Len(n.inputs) < 1
    THEN [body |-> b, result |-> Thrown("set_1::scan", "out_of_range")]
    ELSE IF ~is_null(n.inputs[1])
    THEN [body |-> b, result |-> Thrown("set_1::scan", "sequence_lens")]
    ELSE import_onnx_scan("set_1::scan", n, b, 1, 1, "directions")

\* set_9::scan
set_9_scan(n, b) == import_onnx_scan("set_9::scan", n, b, 0, 0, "scan_input_directions")

\* The Scan nodes handed to the translators.  A body has at most MaxParams
\* parameters, and parameters and scan outputs together are at most MaxSlots.
MaxParams == 2

MaxSlots == 3

ScanTensors == {Tensor("y", "i64", StaticShape(<<2, 3>>)), Tensor("z", "f32", DynRank)}

SequenceLens == {NullNode, Tensor("sequence_lens", "i64", StaticShape(<<2>>))}

ScanAxes == {-1, 2}

DirectionFlags == {0, 1, 2}

\* The body subgraph as the importer hands it over: every parameter as the
\* model declares it, consumer c reading parameter min(c, P), no Squeeze yet.
InitialBody(P, R) ==
    [params |-> [i \in 1..P |-> [et |-> "f32", shape |-> DynRank]],
     results |-> [j \in 1..R |->
                     [id |-> j, shape |-> IF j % 2 = 1 THEN StaticShape(<<2>>) ELSE DynRank]],
     src |-> [c \in 1..(IF P = 0 THEN 0 ELSE P + 1) |-> Param(Min(c, P))],
     squeezes |-> <<>>]

\* Body parameters P, scan inputs N, scan outputs S.
ScanShapes ==
    { sh \in (0..MaxParams) \X (0..MaxParams) \X (0..MaxSlots) :
        sh[2] <= sh[1] /\ sh[1] + sh[3] <= MaxSlots }

ScanDataInputs(opset, P) ==
    IF P = 0 THEN {<<>>}
    ELSE { <<h>> \o t : h \in ScanTensors \cup (IF opset = 9 THEN {NullNode} ELSE {}),
                        t \in [1..(P - 1) -> ScanTensors] }

\* node nd with body bd is a Scan node the importer may hand over.
IsScanCase(nd, bd) ==
    \E opset \in {1, 9}, sh \in ScanShapes :
        \E pre \in IF opset = 1 THEN { <<t>> : t \in SequenceLens } ELSE {<<>>},
           data \in ScanDataInputs(opset, sh[1]),
           ia \in OptAttr("scan_input_axes", [1..sh[2] -> ScanAxes]),
           id \in OptAttr(IF opset = 1 THEN "directions" ELSE "scan_input_directions",
                          [1..sh[2] -> DirectionFlags]),
           oa \in OptAttr("scan_output_axes", [1..sh[3] -> ScanAxes]),
           od \in OptAttr("scan_output_directions", [1..sh[3] -> DirectionFlags]) :
            /\ nd = [op |-> "Scan", opset |-> opset, inputs |-> pre \o data,
                     attrs |-> [num_scan_inputs |-> sh[2]] @@ ia @@ id @@ oa @@ od]
            /\ bd = InitialBody(sh[1], sh[1] - sh[2] + sh[3])

----------------------------------------------------------------------------
(* mul, sqrt                                                               *)

\* common::handle_opset6_binary_op<v1::Multiply>: the legacy `broadcast`
\* attribute aligns the right operand with the left one first.
handle_opset6_binary_op(n) ==
    IF Len(n.inputs) < 2
    THEN Thrown("set_1::mul", "out_of_range")
    ELSE LET lhs == n.inputs[1]
             rhs == n.inputs[2]
             broadcast == get_attribute_value(n, "broadcast", 0) # 0
         IN  Returned("set_1::mul",
                      <<[op |-> "Multiply",
                         args |-> <<lhs, IF broadcast
                                         THEN [op |-> "LegacyBroadcast", args |-> <<rhs, lhs>>]
                                         ELSE rhs>>]>>)

set_1_mul(n) == handle_opset6_binary_op(n)

set_7_mul(n) ==
    IF Len(n.inputs) < 2
    THEN Thrown("set_7::mul", "out_of_range")
    ELSE Returned("set_7::mul", <<[op |-> "Multiply", args |-> <<n.inputs[1], n.inputs[2]>>]>>)

sqrt(n) ==
    IF Len(n.inputs) < 1
    THEN Thrown("sqrt", "out_of_range")
    ELSE Returned("sqrt", <<[op |-> "Sqrt", args |-> <<n.inputs[1]>>]>>)

IsElementwiseNode(nd) ==
    \E o \in {"Mul", "Sqrt"},
       i \in {<<>>} \cup { <<t>> : t \in RandomInputs } \cup (RandomInputs \X RandomInputs),
       a \in OptAttr("broadcast", {0, 1}) :
        nd = [op |-> o, inputs |-> i, attrs |-> a]

----------------------------------------------------------------------------

InitScan ==
    /\ IsScanCase(node, body)
    /\ out = NotCalled
    /\ calls = 0

InitStft ==
    /\ IsStftNode(node)
    /\ body = NoBody
    /\ out = NotCalled
    /\ calls = 0

InitScatter ==
    /\ IsScatterNode(node)
    /\ body = NoBody
    /\ out = NotCalled
    /\ calls = 0

InitRandom ==
    /\ IsRandomNode(node)
    /\ body = NoBody
    /\ out = NotCalled
    /\ calls = 0

InitElementwise ==
    /\ IsElementwiseNode(node)
    /\ body = NoBody
    /\ out = NotCalled
    /\ calls = 0

Init == InitScan \/ InitStft \/ InitScatter \/ InitRandom \/ InitElementwise

translate_set_1_scan ==
    /\ node.op = "Scan"
    /\ node.opset = 1
    /\ calls < MaxCalls
    /\ LET r == set_1_scan(node, body) IN body' = r.body /\ out' = r.result
    /\ calls' = calls + 1
    /\ UNCHANGED node

translate_set_9_scan ==
    /\ node.op = "Scan"
    /\ node.opset = 9
    /\ calls < MaxCalls
    /\ LET r == set_9_scan(node, body) IN body' = r.body /\ out' = r.result
    /\ calls' = calls + 1
    /\ UNCHANGED node

set_1_scatter_nd ==
    /\ node.op = "ScatterND"
    /\ calls < MaxCalls
    /\ out' = scatter_nd(node)
    /\ calls' = calls + 1
    /\ UNCHANGED <<node, body>>

set_1_random_normal_like ==
    /\ node.op = "RandomNormalLike"
    /\ calls < MaxCalls
    /\ out' = random_normal_like(node)
    /\ calls' = calls + 1
    /\ UNCHANGED <<node, body>>

translate_set_1_mul ==
    /\ node.op = "Mul"
    /\ calls < MaxCalls
    /\ out' = set_1_mul(node)
    /\ calls' = calls + 1
    /\ UNCHANGED <<node, body>>

translate_set_7_mul ==
    /\ node.op = "Mul"
    /\ calls < MaxCalls
    /\ out' = set_7_mul(node)
    /\ calls' = calls + 1
    /\ UNCHANGED <<node, body>>

set_1_sqrt ==
    /\ node.op = "Sqrt"
    /\ calls < MaxCalls
    /\ out' = sqrt(node)
    /\ calls' = calls + 1
    /\ UNCHANGED <<node, body>>

set_17_stft ==
    /\ node.op = "STFT"
    /\ calls < MaxCalls
    /\ \E ub \in UBOutcomes : out' = stft(node, ub)
    /\ calls' = calls + 1
    /\ UNCHANGED <<node, body>>

Next ==
    \/ translate_set_1_scan
    \/ translate_set_9_scan
    \/ set_1_scatter_nd
    \/ set_17_stft
    \/ set_1_random_normal_like
    \/ translate_set_1_mul
    \/ translate_set_7_mul
    \/ set_1_sqrt

----------------------------------------------------------------------------
(* Properties                                                              *)

\* What the translators of a Scan node were given.
in_offset_of(n) == IF n.opset = 1 THEN 1 ELSE 0

default_axis_of(n) == IF n.opset = 1 THEN 1 ELSE 0

directions_attr_of(n) == IF n.opset = 1 THEN "directions" ELSE "scan_input_directions"

NumScanInputs == node.attrs["num_scan_inputs"]

NumInitialValues == Len(body.params) - NumScanInputs

NumScanOutputs == Len(body.results) - NumInitialValues

ScanReturned == node.op = "Scan" /\ out.status = "ok"

C2_ScanOutputs ==
    (node.op = "Scan" /\ calls > 0) =>
        /\ out.status = "error" => out.outputs = <<>>
        /\ out.status = "ok" =>
              /\ Len(out.outputs) = Len(body.results)
              /\ \A i \in 1..NumInitialValues :
                    /\ out.outputs[i].kind = "iter_value"
                    /\ out.outputs[i].iteration = -1
                    /\ out.outputs[i].body_value = body.results[i]
                    /\ out.outputs[i].merged.body_parameter = i
                    /\ out.outputs[i].merged.initial_value = node.inputs[i + in_offset_of(node)]
                    /\ out.outputs[i].merged.successive_value = body.results[i]
              /\ \A i \in (NumInitialValues + 1)..Len(body.results) :
                    /\ out.outputs[i].kind = "concatenated_slices"
                    /\ out.outputs[i].body_value.op = "Unsqueeze"
                    /\ out.outputs[i].body_value.value = body.results[i]

\* C2 witness: one state variable and one scan output, returned in that order.
C2_Witness ==
    /\ ScanReturned
    /\ NumInitialValues = 1
    /\ NumScanInputs = 1
    /\ Len(out.outputs) = 2
    /\ out.outputs[1].kind = "iter_value"
    /\ out.outputs[2].kind = "concatenated_slices"

\* C3: the opset-1 scan throws with no output exactly when node input 0 is
\* not the null node; otherwise it reads state and scan inputs from node
\* input 1 on, takes 1 for an absent scan axis and reads the input
\* directions from `directions`.  The opset-9 scan never rejects on input
\* 0, reads from node input 0 on, takes 0 for an absent scan axis and reads
\* the input directions from `scan_input_directions`.
C3_ScanOpsets ==
    (node.op = "Scan" /\ calls > 0) =>
        LET off == IF node.opset = 1 THEN 1 ELSE 0
            dflt == IF node.opset = 1 THEN 1 ELSE 0
            dirs == IF node.opset = 1 THEN "directions" ELSE "scan_input_directions"
            sliced == out.outputs[1].ti.sliced_inputs
        IN  /\ (out.error = "sequence_lens") <=> (node.opset = 1 /\ ~is_null(node.inputs[1]))
            /\ out.error = "sequence_lens" => out.status = "error" /\ out.outputs = <<>>
            /\ out.fn = (IF node.opset = 1 THEN "set_1::scan" ELSE "set_9::scan")
            /\ out.status = "ok" =>
                  /\ \A i \in 1..NumInitialValues :
                        out.outputs[i].merged.initial_value = node.inputs[i + off]
                  /\ Len(out.outputs) > 0 =>
                        \A i \in 1..NumScanInputs :
                            /\ sliced[i].value = node.inputs[NumInitialValues + i + off]
                            /\ ~has_attribute(node, "scan_input_axes") =>
                                  sliced[i].slice.axis = dflt
                            /\ (sliced[i].slice.start = -1) <=>
                                  (dirs \in DOMAIN node.attrs /\ node.attrs[dirs][i] # 0)
                  /\ \A j \in 1..NumScanOutputs :
                        ~has_attribute(node, "scan_output_axes") =>
                            /\ out.outputs[NumInitialValues + j].body_value.axis = dflt
                            /\ out.outputs[NumInitialValues + j].slice.axis = dflt

\* C3 witness: the opset-1 scan has rejected a node whose input 0 is a tensor.
C3_Witness ==
    /\ node.op = "Scan"
    /\ node.opset = 1
    /\ ~is_null(node.inputs[1])
    /\ out.status = "error"
    /\ out.error = "sequence_lens"

\* C3 second case reached as well: an opset-9 scan returned for a node whose
\* input 0 is the null node.
C3_Opset9NullInput ==
    /\ ScanReturned
    /\ node.opset = 9
    /\ Len(node.inputs) > 0
    /\ is_null(node.inputs[1])

\* The slicing the claim describes for a direction flag.
Forward(sl) == sl.start = 0 /\ sl.stride = 1 /\ sl.part_size = 1 /\ sl.end = -1

Reverse(sl) == sl.start = -1 /\ sl.stride = -1 /\ sl.part_size = 1 /\ sl.end = 0

\* The axis a counted from the front of a tensor of rank r.
FromFront(a, r) == IF a < 0 THEN a + r ELSE a

\* C6: in a scan that returns, scan input i is sliced forward when its
\* direction flag is zero and in reverse when it is not, along its own scan
\* axis normalised against the rank of the node input; scan output j
\* likewise by its own flag, along its own axis normalised against the rank
\* of the unsqueezed body result (one more than the body result's).
C6_Slicing ==
    (ScanReturned /\ Len(out.outputs) > 0) =>
        LET off == in_offset_of(node)
            sliced == out.outputs[1].ti.sliced_inputs
            in_axes == get_attribute_value(node, "scan_input_axes",
                                           Filled(NumScanInputs, default_axis_of(node)))
            in_dirs == get_attribute_value(node, directions_attr_of(node), Filled(NumScanInputs, 0))
            out_axes == get_attribute_value(node, "scan_output_axes",
                                            Filled(NumScanOutputs, default_axis_of(node)))
            out_dirs == get_attribute_value(node, "scan_output_directions",
                                            Filled(NumScanOutputs, 0))
        IN  /\ Len(sliced) = NumScanInputs
            /\ \A i \in 1..NumScanInputs :
                  LET value == node.inputs[NumInitialValues + i + off]
                  IN  /\ sliced[i].body_parameter = NumInitialValues + i
                      /\ sliced[i].value = value
                      /\ IF in_dirs[i] = 0 THEN Forward(sliced[i].slice) ELSE Reverse(sliced[i].slice)
                      /\ sliced[i].slice.axis =
                            IF value.shape.rank_static
                            THEN FromFront(in_axes[i], Len(value.shape.dims))
                            ELSE in_axes[i]
            /\ \A j \in 1..NumScanOutputs :
                  LET o == out.outputs[NumInitialValues + j]
                      res == body.results[NumInitialValues + j]
                  IN  /\ IF out_dirs[j] = 0 THEN Forward(o.slice) ELSE Reverse(o.slice)
                      /\ o.body_value.axis = out_axes[j]
                      /\ o.slice.axis =
                            IF res.shape.rank_static
                            THEN FromFront(out_axes[j], Len(res.shape.dims) + 1)
                            ELSE out_axes[j]

\* C6 witness: a returned scan whose scan input runs in reverse (flag 2) on a
\* negative axis while its scan output runs forward.
C6_Witness ==
    /\ ScanReturned
    /\ NumScanInputs = 1
    /\ NumScanOutputs = 1
    /\ has_attribute(node, directions_attr_of(node))
    /\ node.attrs[directions_attr_of(node)][1] = 2
    /\ has_attribute(node, "scan_input_axes")
    /\ node.attrs["scan_input_axes"][1] = -1
    /\ Reverse(out.outputs[1].ti.sliced_inputs[1].slice)
    /\ Forward(out.outputs[Len(out.outputs)].slice)

\* The frame_step and frame_length inputs the message of stft names: a
\* constant that is a scalar or has Shape{1}.
ScalarOrShape1Constant(t) == is_constant(t) /\ t.shape.dims \in {<<>>, <<1>>}

\* C4: stft goes past the check of frame_step (and of frame_length, when
\* that input is provided and the check is reached) only for a constant
\* that is a scalar or has Shape{1}; any other one is rejected by that check.
C4_ScalarInputsOnly ==
    (node.op = "STFT" /\ calls > 0 /\ Len(node.inputs) >= 2) =>
        /\ ~ScalarOrShape1Constant(node.inputs[2]) => out.error = "frame_step"
        /\ (/\ ScalarOrShape1Constant(node.inputs[2])
            /\ out.error # "signal_shape"
            /\ Len(node.inputs) > 3
            /\ ~is_null(node.inputs[4])
            /\ ~ScalarOrShape1Constant(node.inputs[4]))
              => out.error = "frame_length"

\* C5: for a node with its three inputs, scatter_nd returns exactly one
\* output, ScatterNDUpdate(input 0, input 1, input 2), if and only if
\* `reduction` is absent or "none"; otherwise it throws a validation error
\* and returns nothing.
C5_ScatterReduction ==
    (node.op = "ScatterND" /\ calls > 0 /\ Len(node.inputs) = 3) =>
        LET supported == "reduction" \notin DOMAIN node.attrs \/ node.attrs["reduction"] = "none"
        IN  /\ supported <=> out.status = "ok"
            /\ supported =>
                  /\ Len(out.outputs) = 1
                  /\ out.outputs[1].op = "ScatterNDUpdate"
                  /\ out.outputs[1].args = <<node.inputs[1], node.inputs[2], node.inputs[3]>>
            /\ ~supported =>
                  /\ out.status = "error"
                  /\ out.error = "validation"
                  /\ out.outputs = <<>>

\* C5 witness: a node with reduction = "add" was rejected.
C5_Witness ==
    /\ node.op = "ScatterND"
    /\ Len(node.inputs) = 3
    /\ has_attribute(node, "reduction")
    /\ node.attrs["reduction"] = "add"
    /\ out.status = "error"
    /\ out.error = "validation"

\* C7: random_normal_like returns one random-normal output whose element
\* type is the one mapped from `dtype` when the attribute is present and
\* that of input 0 otherwise, whose shape is ShapeOf(input 0), whose seed,
\* mean and scale are the attributes or 0.0, 0.0 and 1.0, the mean and
\* scale constants being of the target element type with Shape{1}.
C7_RandomNormalLike ==
    (node.op = "RandomNormalLike" /\ calls > 0 /\ Len(node.inputs) >= 1) =>
        LET target == IF "dtype" \in DOMAIN node.attrs
                      THEN get_ov_element_type(node.attrs["dtype"])
                      ELSE node.inputs[1].et
            mean == IF "mean" \in DOMAIN node.attrs THEN node.attrs["mean"] ELSE 0
            scale == IF "scale" \in DOMAIN node.attrs THEN node.attrs["scale"] ELSE 10
            seed == IF "seed" \in DOMAIN node.attrs THEN node.attrs["seed"] ELSE 0
            o == out.outputs[1]
        IN  /\ (out.status = "ok") <=> (target # "unsupported")
            /\ out.status = "ok" =>
                  /\ Len(out.outputs) = 1
                  /\ o.op = "RandomNormal"
                  /\ o.et = target
                  /\ o.shape.op = "ShapeOf"
                  /\ o.shape.args = <<node.inputs[1]>>
                  /\ o.seed = seed
                  /\ o.mean.et = target /\ o.mean.shape.dims = <<1>>
                  /\ o.scale.et = target /\ o.scale.shape.dims = <<1>>
                  /\ target \notin IntegerTypes => o.mean.value = mean /\ o.scale.value = scale
                  /\ target \in IntegerTypes =>
                        /\ o.mean.value = cast_to(target, mean)
                        /\ o.scale.value = cast_to(target, scale)

\* C7 witness: dtype = 11 (double) on an i64 input with no mean and no scale.
C7_Witness ==
    /\ node.op = "RandomNormalLike"
    /\ out.status = "ok"
    /\ has_attribute(node, "dtype")
    /\ node.attrs["dtype"] = 11
    /\ node.inputs[1].et = "i64"
    /\ ~has_attribute(node, "mean")
    /\ ~has_attribute(node, "scale")
    /\ out.outputs[1].et = "f64"
    /\ out.outputs[1].scale.value = 10

----------------------------------------------------------------------------

Spec == Init /\ [][Next]_vars

\* The translators of one operator each, on the nodes of that operator.
NextScan == translate_set_1_scan \/ translate_set_9_scan

SpecScan == InitScan /\ [][NextScan]_vars

SpecStft == InitStft /\ [][set_17_stft]_vars

SpecScatter == InitScatter /\ [][set_1_scatter_nd]_vars

SpecRandom == InitRandom /\ [][set_1_random_normal_like]_vars

====
